---- MODULE Spec2Model ----
(***************************************************************************)
(* Decomposition tree application (app_final_merged.py): the value rule,   *)
(* the KPI summarizer with its week/month status classifiers, and the      *)
(* tree-building aggregation engine build_tree.                            *)
(*                                                                         *)
(* Data representation.  A DataFrame is a record                           *)
(*   [columns |-> set of column names, records |-> sequence of rows],      *)
(* a row is a function from column name to cell.  A cell is a record       *)
(* [t, s, n]: t = "nan" for a missing value (NaN/NaT/None), t = "str" for  *)
(* a Python str held in s as a sequence of one-character strings, and      *)
(* t = "num" for a number, held in n in units of one half (n = 3 is 1.5),  *)
(* so that fractional value columns and Python's int() truncation are      *)
(* represented exactly.                                                    *)
(***************************************************************************)
EXTENDS Integers, Sequences, FiniteSets, TLC

VARIABLES
    df,                 \* the DataFrame being processed
    hierarchy,          \* sidebar: ordered hierarchy columns
    tooltip_cols,       \* sidebar: tooltip columns
    agg_method,         \* sidebar: "Count" | "Sum" | "Average"
    selected_value_col, \* sidebar: value column offered for Sum/Average
    value_col,          \* the column build_tree aggregates ("" is None)
    time_comparison,    \* "Day" | "Week (Monday start)" | "Month"
    kpi,                \* what kpi_panel computed
    tree_data,          \* what build_tree returned
    constructed,        \* node dicts build_tree has constructed
    d3_tree_data,       \* the tree assembled for the renderer
    st_error,           \* the error shown to the user, "" when none
    tree_data_json,     \* the object whose JSON text is put into the page
    sort_mode_js,       \* sortMode of the page
    manual_reorder_js,  \* manualReorderEnabled of the page
    root,               \* the d3 hierarchy drawn: per node with children,
                        \* whether children is set and the order of the array
    last_op,            \* the latest operation on the page
    output,             \* what the latest operation gave out
    pc                  \* position in the script

vars == <<df, hierarchy, tooltip_cols, agg_method, selected_value_col,
          value_col, time_comparison, kpi, tree_data, constructed,
          d3_tree_data, st_error, tree_data_json, sort_mode_js,
          manual_reorder_js, root, last_op, output, pc>>

script_vars == <<df, hierarchy, tooltip_cols, agg_method, selected_value_col,
                 value_col, time_comparison, kpi, tree_data, constructed,
                 d3_tree_data, st_error, tree_data_json>>

view_vars == <<sort_mode_js, manual_reorder_js, root, last_op, output>>

-----------------------------------------------------------------------------
(* Bounds of the model                                                     *)

MaxRows == 3

MaxLabelLen == 2

\* rows of the sheets on which percentages are ties (1 of 8 is 12.5)
TieRows == 8

-----------------------------------------------------------------------------
(* Cells                                                                   *)

NaN == [t |-> "nan", s |-> <<>>, n |-> 0]

Str(chars) == [t |-> "str", s |-> chars, n |-> 0]

Num(halves) == [t |-> "num", s |-> <<>>, n |-> halves]

\* a pd.Timestamp, by the characters of its date
Timestamp(chars) == [t |-> "ts", s |-> chars, n |-> 0]

NaT == [t |-> "nat", s |-> <<>>, n |-> 0]

None == [t |-> "none", s |-> <<>>, n |-> 0]

\* a value of a type the converter does not know (a datetime.time, a
\* Decimal), by the characters of its str()
Obj(chars) == [t |-> "obj", s |-> chars, n |-> 0]

\* pd.isna(cell)
isna(cell) == cell.t \in {"nan", "nat", "none"}

-----------------------------------------------------------------------------
(* Python str: comparison, split, str()                                    *)

\* The characters the model uses, in code point order.
Alphabet ==
    << " ", ",", "-", ".", "0", "1", "2", "3", "4", "5", "6", "7", "8", "9",
       ":", "A", "B", "C", "D", "E", "F", "G", "H", "I", "J", "K", "L", "M",
       "N", "O", "P", "Q", "R", "S", "T", "U", "V", "W", "X", "Y", "Z", "_",
       "a", "b", "c", "d", "e", "f", "g", "h", "i", "j", "k", "l", "m", "n",
       "o", "p", "q", "r", "s", "t", "u", "v", "w", "x", "y", "z" >>

ord(c) == CHOOSE i \in 1..Len(Alphabet) : Alphabet[i] = c

\* a < b for two str: the first differing character decides, a proper
\* prefix is smaller.
StrLess(a, b) ==
    \E i \in 1..Len(b) :
        /\ i <= Len(a) + 1
        /\ \A j \in 1..(i - 1) : a[j] = b[j]
        /\ (i = Len(a) + 1 \/ ord(a[i]) < ord(b[i]))

\* s.split(' ')[0]: the characters before the first space.
RECURSIVE SplitFirst(_)
SplitFirst(s) ==
    IF s = <<>> \/ Head(s) = " " THEN <<>>
    ELSE <<Head(s)>> \o SplitFirst(Tail(s))

Digits == <<"0", "1", "2", "3", "4", "5", "6", "7", "8", "9">>

\* str() of a non-negative int
RECURSIVE NatStr(_)
NatStr(k) ==
    IF k < 10 THEN <<Digits[k + 1]>>
    ELSE NatStr(k \div 10) \o <<Digits[(k % 10) + 1]>>

\* str() of a float held in halves: 1.5 is "1.5", 2.0 is "2.0", -0.5 is "-0.5"
FloatStr(h) ==
    LET a == IF h < 0 THEN 0 - h ELSE h
        body == NatStr(a \div 2) \o <<".">> \o (IF a % 2 = 0 THEN <<"0">> ELSE <<"5">>)
    IN  IF h < 0 THEN <<"-">> \o body ELSE body

\* str(value) / Series.astype(str) of one cell
str(cell) ==
    IF cell.t = "str" THEN cell.s
    ELSE IF cell.t = "num" THEN FloatStr(cell.n)
    ELSE <<"n", "a", "n">>

\* the characters of a str as one TLA+ string
RECURSIVE Text(_)
Text(chars) ==
    IF chars = <<>> THEN "" ELSE Head(chars) \o Text(Tail(chars))

-----------------------------------------------------------------------------
(* Numbers                                                                 *)

RECURSIVE SeqSum(_)
SeqSum(xs) == IF xs = <<>> THEN 0 ELSE Head(xs) + SeqSum(Tail(xs))

RECURSIVE GCD(_, _)
GCD(a, b) == IF b = 0 THEN a ELSE GCD(b, a % b)

Abs(x) == IF x < 0 THEN 0 - x ELSE x

\* the rational p / q (q > 0) in lowest terms
Rat(p, q) ==
    LET g == GCD(Abs(p), q)
    IN  [num |-> p \div g, den |-> q \div g]

\* int(x) of a float held in halves: truncation toward zero
int(halves) ==
    IF halves >= 0 THEN halves \div 2 ELSE 0 - ((0 - halves) \div 2)

\* p / q rounded half up
RoundHalfUp(p, q) == (2 * p + q) \div (2 * q)

\* round(p / q) for q > 0: Python 3 rounds an exact half to the even integer
round(p, q) ==
    LET lo == p \div q
        twice == 2 * (p - lo * q)
    IN  IF twice < q THEN lo
        ELSE IF twice > q THEN lo + 1
        ELSE IF lo % 2 = 0 THEN lo ELSE lo + 1

-----------------------------------------------------------------------------
(* pandas: Series, groupby, mode, to_numeric                               *)

\* df[col] as a sequence of cells
Column(rows, col) == [i \in 1..Len(rows) |-> rows[i][col]]

\* Series.sum() of a numeric column, in halves; missing values are skipped
ColumnSum(rows, col) ==
    SeqSum([i \in 1..Len(rows) |->
               IF rows[i][col].t = "num" THEN rows[i][col].n ELSE 0])

\* the order pandas sorts group keys in: numbers by value, str by code
\* points, numbers before str
CellLess(a, b) ==
    IF a.t = "num" /\ b.t = "num" THEN a.n < b.n
    ELSE IF a.t = "str" /\ b.t = "str" THEN StrLess(a.s, b.s)
    ELSE a.t = "num" /\ b.t = "str"

RECURSIVE SortCells(_)
SortCells(S) ==
    IF S = {} THEN <<>>
    ELSE LET m == CHOOSE x \in S : \A y \in S \ {x} : CellLess(x, y)
         IN  <<m>> \o SortCells(S \ {m})

\* the keys in the order of their first occurrence, as with sort=False
GroupKeysFirstSeen(rows, col) ==
    LET firsts == {i \in 1..Len(rows) :
                      /\ ~isna(rows[i][col])
                      /\ \A j \in 1..(i - 1) : rows[j][col] # rows[i][col]}
    IN  [k \in 1..Cardinality(firsts) |->
            rows[CHOOSE i \in firsts :
                     Cardinality({j \in firsts : j <= i}) = k][col]]

\* the keys of rows.groupby(col): sort=True, dropna=True are the defaults,
\* so the keys are the distinct non-missing values in sorted order
GroupKeys(rows, col) ==
    SortCells({rows[i][col] : i \in 1..Len(rows)} \ {NaN})

\* for val, group in rows.groupby(col): the <<val, group>> pairs in
\* iteration order; a group keeps its rows in their original order
groupby(rows, col) ==
    LET keys == GroupKeys(rows, col)
    IN  [k \in 1..Len(keys) |->
            [val |-> keys[k],
             group |-> SelectSeq(rows, LAMBDA r : r[col] = keys[k])]]

\* the most frequent non-missing values in the order of their first occurrence
ModeFirstSeen(cells) ==
    LET present == {cells[i] : i \in 1..Len(cells)} \ {NaN}
        count(c) == Cardinality({i \in 1..Len(cells) : cells[i] = c})
        top == {c \in present : \A d \in present : count(d) <= count(c)}
        firsts == {i \in 1..Len(cells) :
                      cells[i] \in top /\ \A j \in 1..(i - 1) : cells[j] # cells[i]}
    IN  [k \in 1..Cardinality(firsts) |->
            cells[CHOOSE i \in firsts : Cardinality({j \in firsts : j <= i}) = k]]

\* Series.mode(): the most frequent non-missing values, sorted
mode(cells) ==
    LET present == {cells[i] : i \in 1..Len(cells)} \ {NaN}
        count(c) == Cardinality({i \in 1..Len(cells) : cells[i] = c})
        top == {c \in present : \A d \in present : count(d) <= count(c)}
    IN  SortCells(top)

\* an int literal: an optional sign and one or more digits
IsIntLiteral(s) ==
    LET body == IF s # <<>> /\ Head(s) = "-" THEN Tail(s) ELSE s
    IN  /\ body # <<>>
        /\ \A i \in 1..Len(body) : \E d \in 1..10 : Digits[d] = body[i]

RECURSIVE ParseNat(_)
ParseNat(s) ==
    IF s = <<>> THEN 0
    ELSE 10 * ParseNat(SubSeq(s, 1, Len(s) - 1))
         + ((CHOOSE d \in 1..10 : Digits[d] = s[Len(s)]) - 1)

\* pd.to_numeric(cell, errors='coerce')
to_numeric(cell) ==
    IF cell.t = "num" THEN cell
    ELSE IF cell.t = "str" /\ IsIntLiteral(cell.s)
         THEN IF Head(cell.s) = "-"
              THEN Num(0 - 2 * ParseNat(Tail(cell.s)))
              ELSE Num(2 * ParseNat(cell.s))
    ELSE NaN

\* df[col] = <cells>: the column is added, or replaced when it exists
WithColumn(frame, col, cells) ==
    [columns |-> frame.columns \cup {col},
     records |-> [i \in 1..Len(frame.records) |->
                     [c \in frame.columns \cup {col} |->
                         IF c = col THEN cells[i] ELSE frame.records[i][c]]]]

-----------------------------------------------------------------------------
(* Status classifiers                                                      *)

Early == <<"E", "a", "r", "l", "y">>

OnTime == <<"O", "n", "-", "T", "i", "m", "e">>

Delayed == <<"D", "e", "l", "a", "y", "e", "d">>

Pending == <<"P", "e", "n", "d", "i", "n", "g">>

NoData == <<"N", "o", " ", "D", "a", "t", "a">>

\* the three-way comparison on the whole labels
CompareWholeLabels(planned_label, actual_label) ==
    IF str(planned_label) = str(actual_label) THEN OnTime
    ELSE IF StrLess(str(actual_label), str(planned_label)) THEN Early
    ELSE Delayed

\* The three-way comparison both classifiers make on the first
\* space-separated part of str(label).  No step of the try block can raise
\* for a str or a number, so its except branch is never taken.
CompareLabels(planned_label, actual_label) ==
    LET planned == SplitFirst(str(planned_label))
        actual == SplitFirst(str(actual_label))
    IN  IF planned = actual THEN OnTime
        ELSE IF StrLess(actual, planned) THEN Early
        ELSE Delayed

calculate_week_status(row) ==
    IF isna(row["Planned_Week_Label"]) \/ isna(row["Actual_Week_Label"])
    THEN Pending
    ELSE CompareLabels(row["Planned_Week_Label"], row["Actual_Week_Label"])

calculate_month_status(row) ==
    IF isna(row["Planned_Month_Label"]) \/ isna(row["Actual_Month_Label"])
    THEN Pending
    ELSE CompareLabels(row["Planned_Month_Label"], row["Actual_Month_Label"])

-----------------------------------------------------------------------------
(* kpi_panel                                                               *)

Week == "Week (Monday start)"

Month == "Month"

Day == "Day"

\* the guard of kpi_panel's body
KpiApplies(frame) ==
    /\ {"Status", "Delay_Days"} \subseteq frame.columns
    /\ Len(frame.records) > 0

\* the column the status counts are taken from
KpiStatusColumn(frame, tcmp) ==
    IF tcmp = Week /\ {"Planned_Week_Label", "Actual_Week_Label"} \subseteq frame.columns
    THEN "Week_Status"
    ELSE IF tcmp = Month /\ {"Planned_Month_Label", "Actual_Month_Label"} \subseteq frame.columns
    THEN "Month_Status"
    ELSE "Status"

\* df_copy as kpi_panel returns it
kpi_frame(frame, tcmp) ==
    IF ~KpiApplies(frame) THEN frame
    ELSE LET numeric == WithColumn(frame, "Delay_Days_Numeric",
                            [i \in 1..Len(frame.records) |->
                                to_numeric(frame.records[i]["Delay_Days"])])
             statuscol == KpiStatusColumn(frame, tcmp)
         IN  IF statuscol = "Week_Status"
             THEN WithColumn(numeric, "Week_Status",
                      [i \in 1..Len(frame.records) |->
                          Str(calculate_week_status(numeric.records[i]))])
             ELSE IF statuscol = "Month_Status"
             THEN WithColumn(numeric, "Month_Status",
                      [i \in 1..Len(frame.records) |->
                          Str(calculate_month_status(numeric.records[i]))])
             ELSE numeric

\* len(df_copy[df_copy[col] == status])
StatusCount(rows, col, status) ==
    Cardinality({i \in 1..Len(rows) : rows[i][col] = Str(status)})

\* the selection with >= 0 in place of > 0
DelayedDataWithZero(rows) ==
    LET sel == SelectSeq(rows, LAMBDA r :
                   r["Delay_Days_Numeric"].t = "num" /\ r["Delay_Days_Numeric"].n >= 0)
    IN  [i \in 1..Len(sel) |-> sel[i]["Delay_Days_Numeric"].n]

\* df_copy.loc[(numeric > 0) & numeric.notna(), 'Delay_Days_Numeric'], in halves
delayed_data(rows) ==
    LET sel == SelectSeq(rows, LAMBDA r :
                   r["Delay_Days_Numeric"].t = "num" /\ r["Delay_Days_Numeric"].n > 0)
    IN  [i \in 1..Len(sel) |-> sel[i]["Delay_Days_Numeric"].n]

\* df_copy.loc[(numeric < 0) & numeric.notna(), 'Delay_Days_Numeric'], in halves
early_data(rows) ==
    LET sel == SelectSeq(rows, LAMBDA r :
                   r["Delay_Days_Numeric"].t = "num" /\ r["Delay_Days_Numeric"].n < 0)
    IN  [i \in 1..Len(sel) |-> sel[i]["Delay_Days_Numeric"].n]

\* data.mean() if not data.empty else 0, as an exact fraction of days
MeanOrZero(data) ==
    IF data = <<>> THEN Rat(0, 1) ELSE Rat(SeqSum(data), 2 * Len(data))

\* data.max() if not data.empty else 0, in halves
MaxOrZero(data) ==
    IF data = <<>> THEN 0
    ELSE CHOOSE m \in {data[i] : i \in 1..Len(data)} :
             \A i \in 1..Len(data) : data[i] <= m

\* f"{x:.1f}" of a fraction, in tenths
Format1f(r) == round(10 * r.num, r.den)

NoKpi ==
    [shown |-> FALSE, total_sites |-> 0, early |-> 0, on_time |-> 0,
     delayed |-> 0, pending |-> 0, avg_delay |-> Rat(0, 1), max_delay |-> 0,
     avg_early |-> Rat(0, 1),
     delay_text |-> [none |-> TRUE, tenths |-> 0],
     early_text |-> [none |-> TRUE, tenths |-> 0],
     max_delay_text |-> [none |-> TRUE, halves |-> 0]]

\* what kpi_panel computes and displays
kpi_panel(frame, tcmp) ==
    IF ~KpiApplies(frame) THEN NoKpi
    ELSE LET rows == kpi_frame(frame, tcmp).records
             statuscol == KpiStatusColumn(frame, tcmp)
             early == StatusCount(rows, statuscol, Early)
             delayed == StatusCount(rows, statuscol, Delayed)
             avg_delay == MeanOrZero(delayed_data(rows))
             max_delay == MaxOrZero(delayed_data(rows))
             avg_early == MeanOrZero(early_data(rows))
         IN  [shown |-> TRUE,
              total_sites |-> Len(frame.records),
              early |-> early,
              on_time |-> StatusCount(rows, statuscol, OnTime),
              delayed |-> delayed,
              pending |-> StatusCount(rows, statuscol, Pending),
              avg_delay |-> avg_delay,
              max_delay |-> max_delay,
              avg_early |-> avg_early,
              delay_text |-> IF delayed > 0
                             THEN [none |-> FALSE, tenths |-> Format1f(avg_delay)]
                             ELSE [none |-> TRUE, tenths |-> 0],
              early_text |-> IF early > 0
                             THEN [none |-> FALSE,
                                   tenths |-> Format1f(Rat(Abs(avg_early.num), avg_early.den))]
                             ELSE [none |-> TRUE, tenths |-> 0],
              max_delay_text |-> IF delayed > 0
                                 THEN [none |-> FALSE, halves |-> max_delay]
                                 ELSE [none |-> TRUE, halves |-> 0]]

-----------------------------------------------------------------------------
(* build_tree                                                              *)

node_color(status) ==
    IF status = Early THEN "#3B82F6"
    ELSE IF status = Delayed THEN "#EF4444"
    ELSE IF status = OnTime THEN "#10B981"
    ELSE IF status = Pending THEN "#6B7280"
    ELSE IF status = NoData THEN "#9CA3AF"
    ELSE "#3B82F6"

\* a payload cut down to the first row of the group
ConvertFirstRowOnly(rows) ==
    IF rows = <<>> THEN <<>> ELSE <<rows[1]>>

\* Timestamp.isoformat() of a date without time of day
isoformat(chars) == chars \o <<"T", "0", "0", ":", "0", "0", ":", "0", "0">>

\* the converter on one scalar: None stays, a Timestamp becomes its isoformat,
\* a str and a float (NaN included) are returned as they are, NaT is pd.isna
\* and becomes None, any other value becomes its str()
convert_cell(cell) ==
    IF cell.t = "none" THEN None
    ELSE IF cell.t = "ts" THEN Str(isoformat(cell.s))
    ELSE IF cell.t = "str" THEN Str(cell.s)
    ELSE IF cell.t = "num" THEN Num(cell.n)
    ELSE IF cell.t = "nan" THEN NaN
    ELSE IF cell.t = "nat" THEN None
    ELSE Str(cell.s)

\* the converter on group.to_dict('records'): list and dict are rebuilt with
\* the same keys and order, each cell converted
convert_pandas_to_json_serializable(rows) ==
    [i \in 1..Len(rows) |->
        [c \in DOMAIN rows[i] |-> convert_cell(rows[i][c])]]

\* the converter on a node dict and, through "children", on its subtree
RECURSIVE convert_tree(_)
convert_tree(node) ==
    [k \in DOMAIN node |->
        IF k = "children"
        THEN [i \in 1..Len(node.children) |-> convert_tree(node.children[i])]
        ELSE IF k = "raw_data"
        THEN convert_pandas_to_json_serializable(node.raw_data)
        ELSE node[k]]

RECURSIVE SortStrs(_)
SortStrs(S) ==
    IF S = {} THEN <<>>
    ELSE LET m == CHOOSE x \in S : \A y \in S \ {x} : StrLess(x, y)
         IN  <<m>> \o SortStrs(S \ {m})

\* ", ".join(parts)
RECURSIVE Join(_)
Join(parts) ==
    IF parts = <<>> THEN <<>>
    ELSE IF Len(parts) = 1 THEN parts[1]
    ELSE parts[1] \o <<",", " ">> \o Join(Tail(parts))

\* the joined values with "nan" kept
TooltipTextKeepingNan(group, col) ==
    LET vals == SortStrs({str(group[i][col]) : i \in 1..Len(group)})
    IN  Join(SelectSeq(vals, LAMBDA v : v # <<>>))

\* ", ".join(v for v in sorted(set(group[col].astype(str))) if v and v != "nan")
TooltipText(group, col) ==
    LET vals == SortStrs({str(group[i][col]) : i \in 1..Len(group)})
    IN  Join(SelectSeq(vals, LAMBDA v : v # <<>> /\ v # <<"n", "a", "n">>))

AlwaysInclude ==
    {"Status", "Delay_Days", "PIC", "Delay_Reason", "Planned_OnAir_Date",
     "Actual_OnAir_Date"}

\* the keys without the columns that are always included
TooltipColumnsWithoutFixed ==
    ({tooltip_cols[i] : i \in 1..Len(tooltip_cols)} \cap df.columns)
    \cup (IF time_comparison = Week /\ "Week_Status" \in df.columns
          THEN {"Week_Status"}
          ELSE IF time_comparison = Month /\ "Month_Status" \in df.columns
          THEN {"Month_Status"}
          ELSE {})

\* the keys of a node's tooltip_data
TooltipColumns ==
    ({tooltip_cols[i] : i \in 1..Len(tooltip_cols)} \cap df.columns)
    \cup (AlwaysInclude \cap df.columns)
    \cup (IF time_comparison = Week /\ "Week_Status" \in df.columns
          THEN {"Week_Status"}
          ELSE IF time_comparison = Month /\ "Month_Status" \in df.columns
          THEN {"Month_Status"}
          ELSE {})

tooltip_data(group) == [c \in TooltipColumns |-> TooltipText(group, c)]

\* the column whose mode is the node's status, "" when there is none
StatusModeColumn ==
    IF time_comparison = Week /\ "Week_Status" \in df.columns THEN "Week_Status"
    ELSE IF time_comparison = Month /\ "Month_Status" \in df.columns THEN "Month_Status"
    ELSE IF "Status" \in df.columns THEN "Status"
    ELSE ""

\* status_mode: mode_result[0] of the status column, "" when the mode is empty
status_mode(group) ==
    IF StatusModeColumn = "" \/ group = <<>> THEN <<>>
    ELSE LET mode_result == mode(Column(group, StatusModeColumn))
         IN  IF Len(mode_result) > 0 THEN str(mode_result[1]) ELSE <<>>

total_count == Len(df.records)

\* the value taken over the whole frame, not over the group
NodeValueOfFrame(group) ==
    IF value_col # "" THEN int(ColumnSum(df.records, value_col))
    ELSE Len(df.records)

\* int(group[value_col].sum()) if value_col else int(len(group))
node_value(group) ==
    IF value_col # "" THEN int(ColumnSum(group, value_col)) ELSE Len(group)

\* round((value / total_count) * 100) if total_count > 0 else 0
node_percentage(value) ==
    IF total_count > 0 THEN round(value * 100, total_count) ELSE 0

\* the node dict built for one group; "children" is popped when it is empty
Node(level, col, val, group, children) ==
    LET val_str == IF isna(val) THEN NoData ELSE str(val)
        value == node_value(group)
        node == [name |-> col \o ": " \o Text(val_str),
                 value |-> value,
                 percentage |-> node_percentage(value),
                 level |-> level,
                 column |-> col,
                 node_value |-> val_str,
                 tooltip_data |-> tooltip_data(group),
                 color |-> node_color(status_mode(group)),
                 raw_data |-> convert_pandas_to_json_serializable(group)]
    IN  IF children = <<>> THEN node ELSE ("children" :> children) @@ node

\* add_node(level, parent, df_sub): the nodes it appends to parent["children"]
RECURSIVE add_node(_, _)
add_node(level, df_sub) ==
    IF level >= Len(hierarchy) THEN <<>>
    ELSE LET col == hierarchy[level + 1]
             groups == groupby(df_sub, col)
         IN  [k \in 1..Len(groups) |->
                 Node(level, col, groups[k].val, groups[k].group,
                      add_node(level + 1, groups[k].group))]

\* build_tree(df, hierarchy, value_col, tooltip_cols, time_comparison)
\* build_tree handing the whole frame, not the group, to add_node
BuildTreePassingFrame ==
    IF hierarchy = <<>> THEN <<>>
    ELSE LET col == hierarchy[1]
             groups == groupby(df.records, col)
         IN  [k \in 1..Len(groups) |->
                 Node(0, col, groups[k].val, groups[k].group,
                      add_node(1, df.records))]

build_tree ==
    IF hierarchy = <<>> THEN <<>>
    ELSE LET col == hierarchy[1]
             groups == groupby(df.records, col)
         IN  [k \in 1..Len(groups) |->
                 Node(0, col, groups[k].val, groups[k].group,
                      add_node(1, groups[k].group))]

\* The course of one build_tree call from add_node(level, ..., rows) on:
\* how many node dicts are constructed, and whether groupby raised KeyError
\* for a hierarchy column the frame does not have.  A node dict is complete
\* before add_node is called for its group, and the exception ends the call.
RECURSIVE Walk(_, _), WalkGroups(_, _, _)
Walk(level, rows) ==
    IF level >= Len(hierarchy) THEN [raised |-> FALSE, built |-> 0]
    ELSE IF hierarchy[level + 1] \notin df.columns THEN [raised |-> TRUE, built |-> 0]
    ELSE WalkGroups(level, groupby(rows, hierarchy[level + 1]), 1)

WalkGroups(level, groups, k) ==
    IF k > Len(groups) THEN [raised |-> FALSE, built |-> 0]
    ELSE LET below == Walk(level + 1, groups[k].group)
         IN  IF below.raised
             THEN [raised |-> TRUE, built |-> 1 + below.built]
             ELSE LET rest == WalkGroups(level, groups, k + 1)
                  IN  [raised |-> rest.raised,
                       built |-> 1 + below.built + rest.built]

-----------------------------------------------------------------------------
(* The script                                                              *)

\* agg_method: df["__value__"] and value_col
ApplyValueRule ==
    /\ pc = "uploaded"
    /\ df' = IF agg_method = "Count"
             THEN WithColumn(df, "__value__",
                      [i \in 1..Len(df.records) |-> Num(2)])
             ELSE WithColumn(df, "__value__",
                      [i \in 1..Len(df.records) |->
                          LET v == to_numeric(df.records[i][selected_value_col])
                          IN  IF isna(v) THEN Num(0) ELSE v])
    /\ value_col' = "__value__"
    /\ pc' = "valued"
    /\ UNCHANGED <<hierarchy, tooltip_cols, agg_method, selected_value_col,
                   time_comparison, kpi, tree_data, constructed, d3_tree_data,
                   st_error>>
    /\ UNCHANGED tree_data_json
    /\ UNCHANGED view_vars

\* df = kpi_panel(df, time_comparison)
KpiPanel ==
    /\ pc = "valued"
    /\ kpi' = kpi_panel(df, time_comparison)
    /\ df' = kpi_frame(df, time_comparison)
    /\ pc' = "summarized"
    /\ UNCHANGED <<hierarchy, tooltip_cols, agg_method, selected_value_col,
                   value_col, time_comparison, tree_data, constructed,
                   d3_tree_data, st_error>>
    /\ UNCHANGED tree_data_json
    /\ UNCHANGED view_vars

\* if not hierarchy: st.error(...); st.info(...); st.stop()
StopEmptyHierarchy ==
    /\ pc = "summarized"
    /\ hierarchy = <<>>
    /\ st_error' = "No columns selected for hierarchy!"
    /\ pc' = "stopped"
    /\ UNCHANGED <<df, hierarchy, tooltip_cols, agg_method, selected_value_col,
                   value_col, time_comparison, kpi, tree_data, constructed,
                   d3_tree_data>>
    /\ UNCHANGED tree_data_json
    /\ UNCHANGED view_vars

\* the build_tree call reached also with an empty hierarchy
BuildTreeUnguarded ==
    /\ pc = "summarized"
    /\ constructed' = Walk(0, df.records).built
    /\ IF Walk(0, df.records).raised
       THEN /\ st_error' = "KeyError"
            /\ pc' = "raised"
            /\ UNCHANGED tree_data
       ELSE /\ tree_data' = build_tree
            /\ pc' = "built"
            /\ UNCHANGED st_error
    /\ UNCHANGED <<df, hierarchy, tooltip_cols, agg_method, selected_value_col,
                   value_col, time_comparison, kpi, d3_tree_data>>
    /\ UNCHANGED tree_data_json
    /\ UNCHANGED view_vars

\* tree_data = build_tree(df, updated_hierarchy, value_col, tooltip_cols,
\* time_comparison): the call returns the tree, or a KeyError of groupby
\* leaves it and ends the script run with the exception shown
BuildTree ==
    /\ pc = "summarized"
    /\ hierarchy # <<>>
    /\ constructed' = Walk(0, df.records).built
    /\ IF Walk(0, df.records).raised
       THEN /\ st_error' = "KeyError"
            /\ pc' = "raised"
            /\ UNCHANGED tree_data
       ELSE /\ tree_data' = build_tree
            /\ pc' = "built"
            /\ UNCHANGED st_error
    /\ UNCHANGED <<df, hierarchy, tooltip_cols, agg_method, selected_value_col,
                   value_col, time_comparison, kpi, d3_tree_data>>
    /\ UNCHANGED tree_data_json
    /\ UNCHANGED view_vars

\* the synthetic root with the row count of the frame as its value
WrapperRootCountingRows ==
    [name |-> "Root",
     children |-> tree_data,
     level |-> 0 - 1,
     value |-> Len(df.records),
     tooltip_data |-> [c \in {} |-> <<>>],
     color |-> "#3B82F6",
     raw_data |-> convert_pandas_to_json_serializable(df.records)]

\* the synthetic root that wraps several depth-0 nodes
wrapper_root ==
    [name |-> "Root",
     children |-> tree_data,
     level |-> 0 - 1,
     value |-> SeqSum([i \in 1..Len(tree_data) |-> tree_data[i].value]),
     tooltip_data |-> [c \in {} |-> <<>>],
     color |-> "#3B82F6",
     raw_data |-> convert_pandas_to_json_serializable(df.records)]

\* the tree shown when build_tree returned no node
placeholder_root ==
    [name |-> "No Data", children |-> <<>>, level |-> 0, value |-> 0,
     tooltip_data |-> [c \in {} |-> <<>>], color |-> "#9CA3AF",
     raw_data |-> <<>>]

\* d3_tree_data: the single depth-0 node, the wrapper root, or the placeholder
AssembleTree ==
    /\ pc = "built"
    /\ d3_tree_data' = IF Len(tree_data) > 0
                       THEN IF Len(tree_data) = 1 THEN tree_data[1]
                            ELSE wrapper_root
                       ELSE placeholder_root
    /\ pc' = "assembled"
    /\ UNCHANGED <<df, hierarchy, tooltip_cols, agg_method, selected_value_col,
                   value_col, time_comparison, kpi, tree_data, constructed,
                   st_error>>
    /\ UNCHANGED tree_data_json
    /\ UNCHANGED view_vars

\* a column label that is a datetime, as read_excel gives for a header cell
\* holding a date; every other label of the model is a str
DateHeader == "2024-01-01 00:00:00"

\* json.dumps raises TypeError: a dict of the object has a key that is not
\* str, int, float, bool or None
RECURSIVE dumps_raises(_)
dumps_raises(node) ==
    \/ DateHeader \in DOMAIN node.tooltip_data
    \/ \E j \in 1..Len(node.raw_data) : DateHeader \in DOMAIN node.raw_data[j]
    \/ "children" \in DOMAIN node
           /\ \E i \in 1..Len(node.children) : dumps_raises(node.children[i])

\* the structure built when the conversion failed: the root's fields with the
\* root's raw_data emptied
d3_tree_data_simple ==
    [name |-> d3_tree_data.name,
     children |-> IF "children" \in DOMAIN d3_tree_data
                  THEN d3_tree_data.children ELSE <<>>,
     level |-> d3_tree_data.level,
     value |-> d3_tree_data.value,
     tooltip_data |-> d3_tree_data.tooltip_data,
     color |-> d3_tree_data.color,
     raw_data |-> <<>>]

\* try: convert and json.dumps the tree; except: st.error and json.dumps of
\* the simple structure, whose TypeError nothing catches
Serialize ==
    /\ pc = "assembled"
    /\ IF ~dumps_raises(convert_tree(d3_tree_data))
       THEN /\ tree_data_json' = convert_tree(d3_tree_data)
            /\ pc' = "serialized"
            /\ UNCHANGED st_error
       ELSE IF ~dumps_raises(d3_tree_data_simple)
       THEN /\ tree_data_json' = d3_tree_data_simple
            /\ st_error' = "Error converting data to JSON"
            /\ pc' = "serialized"
       ELSE /\ st_error' = "TypeError"
            /\ pc' = "raised"
            /\ UNCHANGED tree_data_json
    /\ UNCHANGED <<df, hierarchy, tooltip_cols, agg_method, selected_value_col,
                   value_col, time_comparison, kpi, tree_data, constructed,
                   d3_tree_data>>
    /\ UNCHANGED view_vars

Next ==
    \/ ApplyValueRule
    \/ KpiPanel
    \/ StopEmptyHierarchy
    \/ BuildTree
    \/ AssembleTree
    \/ Serialize

\* the label the renderer draws for a node: d.data.name, followed by
\* " (value, percentage%)" when d.data.value is truthy; the percentage of a
\* dict without that key is undefined
node_label(node) ==
    [name |-> node.name,
     with_value |-> node.value # 0,
     value |-> node.value,
     percentage |-> IF "percentage" \in DOMAIN node
                    THEN [defined |-> TRUE, n |-> node.percentage]
                    ELSE [defined |-> FALSE, n |-> 0]]

\* before build_tree has run: no tree, no node, no error
NoTree == [name |-> ""]

\* before the page is drawn
NoHierarchy == [p \in {} |-> FALSE]

NoOutput == [kind |-> "none", tree |-> NoTree, rows |-> <<>>]

\* sort_mode "None" and manual re-order off, the defaults of the sidebar
DefaultSorting ==
    /\ sort_mode_js = "none"
    /\ manual_reorder_js = FALSE

NothingBuilt ==
    /\ value_col = ""
    /\ kpi = NoKpi
    /\ tree_data = <<>>
    /\ constructed = 0
    /\ d3_tree_data = NoTree
    /\ st_error = ""
    /\ tree_data_json = NoTree
    /\ root = NoHierarchy
    /\ last_op = ""
    /\ output = NoOutput
    /\ pc = "uploaded"

-----------------------------------------------------------------------------
(* The page: the d3 hierarchy, expand and collapse, sorting, dragging,     *)
(* exports and node data.  A node is named by its path: the indexes, in    *)
(* data, of the children leading to it from the root.                      *)

\* const data = {tree_data_json}
data == tree_data_json

\* the children d3.hierarchy reads from a datum
datum_children(d) == IF "children" \in DOMAIN d THEN d.children ELSE <<>>

RECURSIVE NodeAt(_, _)
NodeAt(d, path) ==
    IF path = <<>> THEN d ELSE NodeAt(d.children[Head(path)], Tail(path))

RECURSIVE PathsIn(_)
PathsIn(d) ==
    {<<>>} \cup UNION {{<<i>> \o p : p \in PathsIn(d.children[i])} :
                         i \in 1..Len(datum_children(d))}

\* d3.hierarchy(data): every node with children has them set, in data order
hierarchy_of(d) ==
    [p \in {q \in PathsIn(d) : datum_children(NodeAt(d, q)) # <<>>} |->
        [expanded |-> TRUE,
         order |-> [i \in 1..Len(NodeAt(d, p).children) |-> i]]]

\* the node is reached from the root through children that are set
Visible(r, p) ==
    \A k \in 0..(Len(p) - 1) : r[SubSeq(p, 1, k)].expanded

VisiblePaths(r) == {p \in PathsIn(data) : Visible(r, p)}

\* the comparator of sortMode is negative for (a, b)
Before(a, b) ==
    IF sort_mode_js = "value_desc" THEN b.value < a.value
    ELSE IF sort_mode_js = "value_asc" THEN a.value < b.value
    ELSE IF sort_mode_js = "percentage_desc" THEN b.percentage < a.percentage
    ELSE IF sort_mode_js = "percentage_asc" THEN a.percentage < b.percentage
    ELSE IF sort_mode_js = "name_asc" THEN StrLess(a.node_value, b.node_value)
    ELSE IF sort_mode_js = "name_desc" THEN StrLess(b.node_value, a.node_value)
    ELSE FALSE

\* Array.prototype.sort, which is stable: x goes in front of the first
\* element it is before
RECURSIVE InsertSorted(_, _, _)
InsertSorted(sorted, x, p) ==
    IF sorted = <<>> THEN <<x>>
    ELSE IF Before(NodeAt(data, Append(p, x)), NodeAt(data, Append(p, Head(sorted))))
    THEN <<x>> \o sorted
    ELSE <<Head(sorted)>> \o InsertSorted(Tail(sorted), x, p)

RECURSIVE SortChildren(_, _)
SortChildren(order, p) ==
    IF order = <<>> THEN <<>>
    ELSE InsertSorted(SortChildren(SubSeq(order, 1, Len(order) - 1), p),
                      order[Len(order)], p)

\* applySort(root): the children array of every node reached through set
\* children is sorted in place
applySort(r) ==
    [p \in DOMAIN r |->
        IF Visible(r, p) /\ r[p].expanded
        THEN [expanded |-> TRUE, order |-> SortChildren(r[p].order, p)]
        ELSE r[p]]

\* update(source): the automatic sort runs unless manual re-order is on
update(r) ==
    IF ~manual_reorder_js /\ sort_mode_js # "none" THEN applySort(r) ELSE r

\* the picture drawn from a hierarchy: names, nested as the children are set
RECURSIVE Drawn(_, _)
Drawn(r, p) ==
    [name |-> NodeAt(data, p).name,
     children |-> IF p \in DOMAIN r /\ r[p].expanded
                  THEN [k \in 1..Len(r[p].order) |->
                           Drawn(r, Append(p, r[p].order[k]))]
                  ELSE <<>>]

\* node.descendants() below the nodes of a level, level by level
RECURSIVE descendants(_, _)
descendants(r, level) ==
    IF level = <<>> THEN <<>>
    ELSE LET kids(p) == IF p \in DOMAIN r /\ r[p].expanded
                        THEN [k \in 1..Len(r[p].order) |-> Append(p, r[p].order[k])]
                        ELSE <<>>
             below[i \in 0..Len(level)] ==
                 IF i = 0 THEN <<>> ELSE below[i - 1] \o kids(level[i])
         IN  level \o descendants(r, below[Len(level)])

RECURSIVE Concat(_)
Concat(seqs) == IF seqs = <<>> THEN <<>> ELSE Head(seqs) \o Concat(Tail(seqs))

\* getNodeData(node): the node's raw_data, then the raw_data of each of its
\* descendants
getNodeData(r, p) ==
    LET nodes == descendants(r, <<p>>)
    IN  Concat([i \in 1..Len(nodes) |-> NodeAt(data, nodes[i]).raw_data])

\* the page is drawn: d3.hierarchy(data), the nodes deeper than depth 1
\* start without children set, then the initial update(root)
Render ==
    /\ pc = "serialized"
    /\ root' = update([p \in DOMAIN hierarchy_of(data) |->
                          IF Len(p) > 1
                          THEN [expanded |-> FALSE,
                                order |-> hierarchy_of(data)[p].order]
                          ELSE hierarchy_of(data)[p]])
    /\ last_op' = "render"
    /\ pc' = "rendered"
    /\ UNCHANGED <<script_vars, sort_mode_js, manual_reorder_js, output>>

\* click on a node of the picture: children is toggled when the node has
\* _children, then update(d)
Click ==
    /\ pc = "rendered"
    /\ \E p \in VisiblePaths(root) :
           root' = update(IF p \in DOMAIN root
                          THEN [root EXCEPT ![p].expanded = ~root[p].expanded]
                          ELSE root)
    /\ last_op' = "click"
    /\ output' = NoOutput
    /\ UNCHANGED <<script_vars, sort_mode_js, manual_reorder_js, pc>>

\* expandAll(): children and _children of every node are taken from a fresh
\* d3.hierarchy(data)
expandAll ==
    /\ pc = "rendered"
    /\ root' = update(hierarchy_of(data))
    /\ last_op' = "expandAll"
    /\ output' = NoOutput
    /\ UNCHANGED <<script_vars, sort_mode_js, manual_reorder_js, pc>>

\* collapseAll(): root.descendants(), the nodes reached through set
\* children, have their children unset
collapseAll ==
    /\ pc = "rendered"
    /\ root' = update([p \in DOMAIN root |->
                          IF Visible(root, p)
                          THEN [expanded |-> FALSE, order |-> root[p].order]
                          ELSE root[p]])
    /\ last_op' = "collapseAll"
    /\ output' = NoOutput
    /\ UNCHANGED <<script_vars, sort_mode_js, manual_reorder_js, pc>>

\* the array with the element at index from moved to index to
Moved(order, from, to) ==
    LET rest == SubSeq(order, 1, from - 1) \o SubSeq(order, from + 1, Len(order))
    IN  SubSeq(rest, 1, to - 1) \o <<order[from]>> \o SubSeq(rest, to, Len(rest))

\* the end of a drag of a node to another place among its siblings
DragEnd ==
    /\ pc = "rendered"
    /\ manual_reorder_js
    /\ \E p \in VisiblePaths(root) \ {<<>>} :
           LET parent == SubSeq(p, 1, Len(p) - 1)
               order == root[parent].order
               currentIndex == CHOOSE i \in 1..Len(order) : order[i] = p[Len(p)]
           IN  \E newIndex \in 1..Len(order) \ {currentIndex} :
                   root' = update([root EXCEPT ![parent].order =
                                       Moved(order, currentIndex, newIndex)])
    /\ last_op' = "drag"
    /\ output' = NoOutput
    /\ UNCHANGED <<script_vars, sort_mode_js, manual_reorder_js, pc>>

\* the current view drawn from a fresh d3.hierarchy(data)
CurrentViewFromData == Drawn(hierarchy_of(data), <<>>)

\* root.copy() drawn: the nodes reached through set children, in the order
\* of the arrays
current_view == Drawn(root, <<>>)

\* downloadPNG(), downloadSVG() and their transparent variants: a fresh
\* d3.hierarchy(data) is drawn
downloadPNG ==
    /\ pc = "rendered"
    /\ output' = [kind |-> "complete", tree |-> Drawn(hierarchy_of(data), <<>>),
                  rows |-> <<>>]
    /\ last_op' = "downloadPNG"
    /\ UNCHANGED <<script_vars, sort_mode_js, manual_reorder_js, root, pc>>

\* downloadCurrentViewPNG(), downloadCurrentViewSVG()
downloadCurrentViewPNG ==
    /\ pc = "rendered"
    /\ output' = [kind |-> "current", tree |-> current_view, rows |-> <<>>]
    /\ last_op' = "downloadCurrentViewPNG"
    /\ UNCHANGED <<script_vars, sort_mode_js, manual_reorder_js, root, pc>>

\* context menu on a node of the picture, then showNodeDetails() or
\* downloadNodeData(): the rows getNodeData returns for the selected node
showNodeDetails ==
    /\ pc = "rendered"
    /\ \E p \in VisiblePaths(root) :
           output' = [kind |-> "rows", tree |-> NodeAt(data, p),
                      rows |-> getNodeData(root, p)]
    /\ last_op' = "showNodeDetails"
    /\ UNCHANGED <<script_vars, sort_mode_js, manual_reorder_js, root, pc>>

NextView ==
    \/ Next
    \/ Render
    \/ Click
    \/ expandAll
    \/ collapseAll
    \/ DragEnd
    \/ downloadPNG
    \/ downloadCurrentViewPNG
    \/ showNodeDetails

\* DataFrames of at most maxrows rows over a set of rows
Frames(cols, rowset, maxrows) ==
    {[columns |-> cols, records |-> recs] :
        recs \in UNION {[1..k -> rowset] : k \in 0..maxrows}}

RegionValues == {NaN, Str(<<"A">>), Str(<<"B">>)}

SiteValues == {NaN, Str(<<"X">>)}

AmountValues == {Num(1), Num(4)}

\* an uploaded sheet of regions, sites and amounts
Init ==
    /\ df \in Frames({"Region", "Site", "Amount"},
                     [Region : RegionValues, Site : SiteValues, Amount : AmountValues],
                     MaxRows)
    /\ hierarchy \in {<<>>, <<"Region">>, <<"Region", "Site">>, <<"Site", "Region">>}
    /\ tooltip_cols = <<>>
    /\ agg_method \in {"Count", "Sum", "Average"}
    /\ selected_value_col = "Amount"
    /\ time_comparison = Day
    /\ DefaultSorting
    /\ NothingBuilt

Spec == Init /\ [][Next]_vars

\* the characters a week or month label is drawn from: "x" is no part of
\* any bucket label such as "2024-W01" or "2024-01"
LabelChars == {" ", "1", "2", "x"}

LabelValues ==
    {NaN} \cup {Str(chars) : chars \in UNION {[1..k -> LabelChars] : k \in 1..MaxLabelLen}}

\* a sheet of one site that carries planned and actual bucket labels, with
\* kpi_panel and build_tree run at week or month granularity
InitClassify ==
    /\ time_comparison \in {Week, Month}
    /\ df \in IF time_comparison = Week
              THEN Frames({"Status", "Delay_Days", "Planned_Week_Label", "Actual_Week_Label"},
                          [Status : {Str(Pending)}, Delay_Days : {NaN},
                           Planned_Week_Label : LabelValues,
                           Actual_Week_Label : LabelValues], 1)
              ELSE Frames({"Status", "Delay_Days", "Planned_Month_Label", "Actual_Month_Label"},
                          [Status : {Str(Pending)}, Delay_Days : {NaN},
                           Planned_Month_Label : LabelValues,
                           Actual_Month_Label : LabelValues], 1)
    /\ hierarchy \in {<<>>, <<"Status">>}
    /\ tooltip_cols \in {<<>>, <<"Status", "Planned_Week_Label">>}
    /\ agg_method = "Count"
    /\ selected_value_col = "Delay_Days"
    /\ DefaultSorting
    /\ NothingBuilt

SpecClassify == InitClassify /\ [][Next]_vars

StatusValues == {NaN, Str(Early), Str(OnTime), Str(Delayed), Str(Pending)}

\* a sheet of regions and day-level statuses
InitStatus ==
    /\ df \in Frames({"Region", "Status"},
                     [Region : {Str(<<"A">>), Str(<<"B">>)}, Status : StatusValues],
                     MaxRows)
    /\ hierarchy \in {<<>>, <<"Region">>}
    /\ tooltip_cols \in {<<>>, <<"Region">>}
    /\ agg_method = "Count"
    /\ selected_value_col = "Region"
    /\ time_comparison = Day
    /\ DefaultSorting
    /\ NothingBuilt

SpecStatus == InitStatus /\ [][Next]_vars

\* delays of -3, -1, 0 and 1 days, a missing delay, the text "3" and a text
\* that is no number
DelayValues ==
    {NaN, Num(0 - 6), Num(0 - 2), Num(0), Num(2), Str(<<"3">>), Str(<<"x">>)}

\* a sheet of statuses and delays
InitKpi ==
    /\ df \in Frames({"Status", "Delay_Days"},
                     [Status : {Str(Early), Str(Delayed)}, Delay_Days : DelayValues],
                     MaxRows)
    /\ hierarchy \in {<<>>, <<"Status">>}
    /\ tooltip_cols = <<>>
    /\ agg_method \in {"Count", "Sum"}
    /\ selected_value_col = "Delay_Days"
    /\ time_comparison = Day
    /\ DefaultSorting
    /\ NothingBuilt

SpecKpi == InitKpi /\ [][Next]_vars

\* build_tree called with a hierarchy that may name "Zone", a column the
\* sheet does not have
InitConfig ==
    /\ df \in Frames({"Region", "Site"},
                     [Region : RegionValues, Site : SiteValues], MaxRows)
    /\ hierarchy \in {<<>>, <<"Region">>, <<"Region", "Site">>, <<"Zone">>,
                      <<"Region", "Zone">>, <<"Region", "Site", "Zone">>}
    /\ tooltip_cols = <<>>
    /\ agg_method = "Count"
    /\ selected_value_col = "Region"
    /\ time_comparison = Day
    /\ DefaultSorting
    /\ NothingBuilt

SpecConfig == InitConfig /\ [][Next]_vars

WhenValues ==
    {Timestamp(<<"2", "0", "2", "4", "-", "0", "1", "-", "0", "2">>), NaT,
     Obj(<<"0", "8", ":", "3", "0", ":", "0", "0">>)}

\* a sheet with a column of dates, times and blanks, whose header is either
\* a text or itself a date
InitSerial ==
    /\ \E label \in {"When", DateHeader} :
           df \in Frames({"Region", label},
                         {r \in [{"Region", label} -> RegionValues \cup WhenValues] :
                             r["Region"] \in RegionValues /\ r[label] \in WhenValues},
                         MaxRows)
    /\ hierarchy \in {<<>>, <<"Region">>}
    /\ tooltip_cols = <<>>
    /\ agg_method = "Count"
    /\ selected_value_col = "Region"
    /\ time_comparison = Day
    /\ DefaultSorting
    /\ NothingBuilt

SpecSerial == InitSerial /\ [][Next]_vars

\* cells of a column that holds numbers and texts: the number 1.5, the text
\* "1.5", the text "A" and a blank
MixedValues == {NaN, Num(3), Str(<<"1", ".", "5">>), Str(<<"A">>)}

InitMixed ==
    /\ df \in Frames({"Region"}, [Region : MixedValues], MaxRows)
    /\ hierarchy \in {<<>>, <<"Region">>}
    /\ tooltip_cols = <<>>
    /\ agg_method = "Count"
    /\ selected_value_col = "Region"
    /\ time_comparison = Day
    /\ DefaultSorting
    /\ NothingBuilt

SpecMixed == InitMixed /\ [][Next]_vars

\* sheets of up to TieRows rows over two regions
InitTies ==
    /\ df \in Frames({"Region"}, [Region : {Str(<<"A">>), Str(<<"B">>)}], TieRows)
    /\ hierarchy \in {<<>>, <<"Region">>}
    /\ tooltip_cols = <<>>
    /\ agg_method = "Count"
    /\ selected_value_col = "Region"
    /\ time_comparison = Day
    /\ DefaultSorting
    /\ NothingBuilt

SpecTies == InitTies /\ [][Next]_vars

\* the place of a row in a sheet kept sorted by region and site
RowRank(r) ==
    (IF r.Region = Str(<<"A">>) THEN 0 ELSE 2) + (IF r.Site = Str(<<"X">>) THEN 0 ELSE 1)

\* a sheet of regions and sites, its rows sorted (groupby orders the nodes by
\* key whatever the order of the rows), drawn with any sort mode, with and
\* without manual re-order
InitView ==
    /\ df \in {f \in Frames({"Region", "Site"},
                             [Region : {Str(<<"A">>), Str(<<"B">>)},
                              Site : {Str(<<"X">>), Str(<<"Y">>)}], MaxRows) :
                  \A i \in 1..(Len(f.records) - 1) :
                      RowRank(f.records[i]) <= RowRank(f.records[i + 1])}
    /\ hierarchy \in {<<>>, <<"Region", "Site">>}
    /\ tooltip_cols = <<>>
    /\ agg_method = "Count"
    /\ selected_value_col = "Region"
    /\ time_comparison = Day
    /\ sort_mode_js \in {"none", "value_desc", "value_asc", "percentage_desc",
                          "percentage_asc", "name_asc", "name_desc"}
    /\ manual_reorder_js \in BOOLEAN
    /\ manual_reorder_js => sort_mode_js \in {"none", "value_desc"}
    /\ value_col = ""
    /\ kpi = NoKpi
    /\ tree_data = <<>>
    /\ constructed = 0
    /\ d3_tree_data = NoTree
    /\ st_error = ""
    /\ tree_data_json = NoTree
    /\ root = NoHierarchy
    /\ last_op = ""
    /\ output = NoOutput
    /\ pc = "uploaded"

SpecView == InitView /\ [][NextView]_vars

-----------------------------------------------------------------------------
(* Properties of the tree                                                  *)

HasChildren(node) == "children" \in DOMAIN node

ChildrenOf(node) == IF HasChildren(node) THEN node.children ELSE <<>>

\* every node of a list of sibling nodes and of their subtrees
RECURSIVE NodesOf(_)
NodesOf(nodes) ==
    UNION {{nodes[i]} \cup NodesOf(ChildrenOf(nodes[i])) : i \in 1..Len(nodes)}

ValueSum(nodes) == SeqSum([i \in 1..Len(nodes) |-> nodes[i].value])

\* the dataset total under the active value rule, in halves: the number of
\* rows for Count, the sum of the value column for Sum and Average
DatasetTotal ==
    IF agg_method = "Count" THEN 2 * Len(df.records)
    ELSE ColumnSum(df.records, "__value__")

\* the grouping value of a node, read from its first member row
KeyOf(node) == node.raw_data[1][node.column]

\* C1: the values of the depth-0 nodes sum to the dataset total, exactly,
\* under Count and under Sum, also with missing values in hierarchy[0] and
\* with fractional values.
C1_RootValuesSumToTotal ==
    pc = "built" => 2 * ValueSum(tree_data) = DatasetTotal

\* C2: for every node above the deepest hierarchy level the values of its
\* children sum to the node's own value.
C2_ChildrenSumToParent ==
    pc = "built" =>
        \A node \in NodesOf(tree_data) :
            node.level + 1 < Len(hierarchy) =>
                ValueSum(ChildrenOf(node)) = node.value

\* the rows of a subset whose value in col is missing
MissingRows(rows, col) == SelectSeq(rows, LAMBDA r : isna(r[col]))

\* the rows of a subset with a missing value in col are the member rows of
\* exactly one node of the sibling list, and that node is labeled "No Data"
RoutedToNoData(rows, col, siblings) ==
    MissingRows(rows, col) # <<>> =>
        /\ Cardinality({i \in 1..Len(siblings) : siblings[i].node_value = NoData}) = 1
        /\ \A i \in 1..Len(siblings) :
               siblings[i].node_value = NoData =>
                   siblings[i].raw_data = MissingRows(rows, col)

\* C3: at every level the rows with a missing value in the grouping column
\* are all in one node labeled "No Data"; none is dropped, none is split off.
C3_MissingRowsInOneNoDataNode ==
    pc = "built" =>
        /\ RoutedToNoData(df.records, hierarchy[1], tree_data)
        /\ \A node \in NodesOf(tree_data) :
               node.level + 1 < Len(hierarchy) =>
                   RoutedToNoData(node.raw_data, hierarchy[node.level + 2],
                                  ChildrenOf(node))

\* C4: every node's percentage is round(value / total * 100) with total the
\* dataset total under the active value rule, 0 when that total is 0, and
\* within 0..100 when no contributed value is negative.
C4_PercentageOfDatasetTotal ==
    pc = "built" =>
        \A node \in NodesOf(tree_data) :
            /\ node.percentage =
                   IF DatasetTotal = 0 THEN 0
                   ELSE round(node.value * 100 * 2, DatasetTotal)
            /\ (\A i \in 1..Len(df.records) : df.records[i]["__value__"].n >= 0)
                   => node.percentage \in 0..100

\* the position of the first row of a subset that belongs to a node
FirstOccurrence(rows, node) ==
    CHOOSE i \in 1..Len(rows) :
        /\ rows[i][node.column] = KeyOf(node)
        /\ \A j \in 1..(i - 1) : rows[j][node.column] # KeyOf(node)

InFirstOccurrenceOrder(rows, siblings) ==
    \A i, j \in 1..Len(siblings) :
        i < j => FirstOccurrence(rows, siblings[i]) < FirstOccurrence(rows, siblings[j])

InSortedOrder(siblings) ==
    \A i, j \in 1..Len(siblings) :
        i < j => CellLess(KeyOf(siblings[i]), KeyOf(siblings[j]))

\* C5 as claimed: every sibling list is in the order in which the grouping
\* values first occur in the row subset.
C5_SiblingsInFirstOccurrenceOrder ==
    pc = "built" =>
        /\ InFirstOccurrenceOrder(df.records, tree_data)
        /\ \A node \in NodesOf(tree_data) :
               InFirstOccurrenceOrder(node.raw_data, ChildrenOf(node))

\* C5 amended: every sibling list is in ascending sorted order of the
\* grouping value.
C5_SiblingsInSortedOrder ==
    pc = "built" =>
        /\ InSortedOrder(tree_data)
        /\ \A node \in NodesOf(tree_data) : InSortedOrder(ChildrenOf(node))

\* a tree with a children list of several nodes whose sorted order is not
\* the order in which their values first occur in the parent's rows
C5_Witness ==
    /\ pc = "built"
    /\ \E node \in NodesOf(tree_data) :
           /\ Len(ChildrenOf(node)) > 1
           /\ InSortedOrder(ChildrenOf(node))
           /\ ~InFirstOccurrenceOrder(node.raw_data, ChildrenOf(node))

-----------------------------------------------------------------------------
(* Properties of the status classifiers                                    *)

Classified == pc \in {"summarized", "built"} /\ time_comparison \in {Week, Month}

PlannedLabel(row) ==
    IF time_comparison = Week THEN row["Planned_Week_Label"] ELSE row["Planned_Month_Label"]

ActualLabel(row) ==
    IF time_comparison = Week THEN row["Actual_Week_Label"] ELSE row["Actual_Month_Label"]

RowStatus(row) ==
    IF time_comparison = Week THEN row["Week_Status"].s ELSE row["Month_Status"].s

\* the part of a label before its first space, the whole label when it has none
BucketPart(label) ==
    LET spaces == {i \in 1..Len(label) : label[i] = " "}
    IN  IF spaces = {} THEN label
        ELSE SubSeq(label, 1, (CHOOSE i \in spaces : \A j \in spaces : i <= j) - 1)

\* status is the three-way comparison of actual against planned
ThreeWay(status, planned, actual) ==
    /\ status = OnTime <=> actual = planned
    /\ status = Early <=> StrLess(actual, planned)
    /\ status = Delayed <=> StrLess(planned, actual)

\* C7 as claimed: with both labels present, the status is the three-way
\* comparison of the two labels as strings.
C7_StatusComparesLabels ==
    Classified =>
        \A i \in 1..Len(df.records) :
            LET row == df.records[i]
            IN  ~isna(PlannedLabel(row)) /\ ~isna(ActualLabel(row)) =>
                    ThreeWay(RowStatus(row), str(PlannedLabel(row)), str(ActualLabel(row)))

\* C7 amended: with both labels present, the status is the three-way
\* comparison of the parts of the two labels before their first space.
C7_StatusComparesBucketParts ==
    Classified =>
        \A i \in 1..Len(df.records) :
            LET row == df.records[i]
            IN  ~isna(PlannedLabel(row)) /\ ~isna(ActualLabel(row)) =>
                    ThreeWay(RowStatus(row), BucketPart(str(PlannedLabel(row))),
                             BucketPart(str(ActualLabel(row))))

\* a classified row whose labels differ only after the first space
C7_Witness ==
    /\ Classified
    /\ \E i \in 1..Len(df.records) :
           LET row == df.records[i]
           IN  /\ ~isna(PlannedLabel(row)) /\ ~isna(ActualLabel(row))
               /\ StrLess(str(ActualLabel(row)), str(PlannedLabel(row)))
               /\ BucketPart(str(PlannedLabel(row))) # <<>>
               /\ RowStatus(row) = OnTime

\* the characters of a bucket label such as "2024-W01" or "2024-01"
BucketChars == {"0", "1", "2", "3", "4", "5", "6", "7", "8", "9", "-", "W"}

\* a label that is present and whose bucket part is no bucket label
Malformed(cell) ==
    /\ ~isna(cell)
    /\ LET part == BucketPart(str(cell))
       IN  part = <<>> \/ \E i \in 1..Len(part) : part[i] \notin BucketChars

\* C8: every row gets exactly one of the four statuses, and gets Pending
\* when a label is missing or malformed.
C8_TotalAndPendingOnBadLabel ==
    Classified =>
        \A i \in 1..Len(df.records) :
            LET row == df.records[i]
            IN  /\ RowStatus(row) \in {Early, OnTime, Delayed, Pending}
                /\ (\/ isna(PlannedLabel(row)) \/ isna(ActualLabel(row))
                    \/ Malformed(PlannedLabel(row)) \/ Malformed(ActualLabel(row)))
                       => RowStatus(row) = Pending

-----------------------------------------------------------------------------
(* Properties of the status summary                                        *)

\* the statuses of a node's member rows that are not missing
StatusesOf(rows) == {rows[i]["Status"] : i \in 1..Len(rows)} \ {NaN}

Occurrences(rows, status) ==
    Cardinality({i \in 1..Len(rows) : rows[i]["Status"] = status})

MostFrequent(rows) ==
    {st \in StatusesOf(rows) :
        \A other \in StatusesOf(rows) : Occurrences(rows, other) <= Occurrences(rows, st)}

FirstRowWith(rows, status) ==
    CHOOSE i \in 1..Len(rows) :
        rows[i]["Status"] = status /\ \A j \in 1..(i - 1) : rows[j]["Status"] # status

\* the most frequent status that occurs first in row order, "" when every
\* status is missing
FirstSeenMode(rows) ==
    IF MostFrequent(rows) = {} THEN <<>>
    ELSE (CHOOSE st \in MostFrequent(rows) :
              \A other \in MostFrequent(rows) :
                  FirstRowWith(rows, st) <= FirstRowWith(rows, other)).s

\* the most frequent status that is smallest as a string, "" when every
\* status is missing
SmallestMode(rows) ==
    IF MostFrequent(rows) = {} THEN <<>>
    ELSE (CHOOSE st \in MostFrequent(rows) :
              \A other \in MostFrequent(rows) \ {st} : StrLess(st.s, other.s)).s

\* C9 as claimed: a node's color is that of the most frequent status of its
\* member rows, a tie going to the status that occurs first in row order.
C9_ColorOfFirstSeenMode ==
    pc = "built" =>
        \A node \in NodesOf(tree_data) :
            node.color = node_color(FirstSeenMode(node.raw_data))

\* C9 amended: a node's color is that of the most frequent non-missing
\* status of its member rows, a tie going to the status that is smallest in
\* string order.
C9_ColorOfSmallestMode ==
    pc = "built" =>
        \A node \in NodesOf(tree_data) :
            node.color = node_color(SmallestMode(node.raw_data))

\* a node with a tie whose first-seen status is not the smallest one and has
\* another color
C9_Witness ==
    /\ pc = "built"
    /\ \E node \in NodesOf(tree_data) :
           /\ Cardinality(MostFrequent(node.raw_data)) > 1
           /\ node_color(FirstSeenMode(node.raw_data)) # node.color

-----------------------------------------------------------------------------
(* Properties of the KPI summarizer                                        *)

RECURSIVE SetSum(_, _)
SetSum(f, S) ==
    IF S = {} THEN 0
    ELSE LET x == CHOOSE y \in S : TRUE IN f[x] + SetSum(f, S \ {x})

\* the numeric delay of every row, in halves; 0 stands in where it is missing
NumericDelays ==
    [i \in 1..Len(df.records) |-> to_numeric(df.records[i]["Delay_Days"]).n]

HasDelay(i) == ~isna(to_numeric(df.records[i]["Delay_Days"]))

DelayedRows == {i \in 1..Len(df.records) : HasDelay(i) /\ NumericDelays[i] > 0}

EarlyRows == {i \in 1..Len(df.records) : HasDelay(i) /\ NumericDelays[i] < 0}

\* a fraction equals total / (2 * count), the mean of count values in halves
IsMean(fraction, total, count) ==
    fraction.num * 2 * count = total * fraction.den

\* C10: average and maximum delay are taken over exactly the rows with a
\* numeric delay > 0, average early is the mean magnitude over exactly the
\* rows with a numeric delay < 0, and each is 0 when its subset is empty.
C10_KpiOverSignedSubsets ==
    (pc \in {"summarized", "built"} /\ kpi.shown) =>
        /\ IF DelayedRows = {}
           THEN kpi.avg_delay.num = 0 /\ kpi.max_delay = 0
           ELSE /\ IsMean(kpi.avg_delay, SetSum(NumericDelays, DelayedRows),
                          Cardinality(DelayedRows))
                /\ kpi.max_delay \in {NumericDelays[i] : i \in DelayedRows}
                /\ \A i \in DelayedRows : NumericDelays[i] <= kpi.max_delay
        /\ IF EarlyRows = {}
           THEN kpi.avg_early.num = 0
           ELSE IsMean([num |-> Abs(kpi.avg_early.num), den |-> kpi.avg_early.den],
                       SetSum([i \in 1..Len(df.records) |-> Abs(NumericDelays[i])],
                              EarlyRows),
                       Cardinality(EarlyRows))

\* a summarized sheet with a late row, an early row and a row with a zero
\* or missing delay
C10_Witness ==
    /\ pc = "summarized"
    /\ kpi.shown
    /\ DelayedRows # {}
    /\ EarlyRows # {}
    /\ DelayedRows \cup EarlyRows # 1..Len(df.records)

-----------------------------------------------------------------------------
(* The tree of one hierarchy column, and the tree handed to the renderer   *)

\* the rows of the dataset whose cell in col is v
RowsWith(col, v) == {j \in 1..Len(df.records) : df.records[j][col] = v}

\* p is count as a percent of n, rounded to a nearest integer
IsRoundedPercent(p, count, n) == 2 * Abs(p * n - 100 * count) <= n

SingleColumnCount ==
    /\ pc = "built"
    /\ agg_method = "Count"
    /\ Len(hierarchy) = 1
    /\ \A j \in 1..Len(df.records) : ~isna(df.records[j][hierarchy[1]])

\* C11: with the Count rule and a hierarchy of one column C in which no row
\* is missing, build_tree returns one depth-0 node per distinct value v of C,
\* named "C: v", with value the number of rows having C = v and percentage
\* that number as a rounded percent of the number of rows.
C11_OneNodePerDistinctValue ==
    SingleColumnCount =>
        LET C == hierarchy[1]
            distinct == {df.records[j][C] : j \in 1..Len(df.records)}
        IN  /\ Len(tree_data) = Cardinality(distinct)
            /\ \A v \in distinct :
                   \E i \in 1..Len(tree_data) :
                       /\ tree_data[i].name = C \o ": " \o Text(str(v))
                       /\ tree_data[i].value = Cardinality(RowsWith(C, v))
                       /\ IsRoundedPercent(tree_data[i].percentage,
                                           Cardinality(RowsWith(C, v)),
                                           Len(df.records))

\* two values of C, one on two rows and one on one row
C11_Witness ==
    /\ SingleColumnCount
    /\ Len(tree_data) = 2
    /\ \E i \in 1..2 : tree_data[i].value = 2 /\ tree_data[i].percentage = 67
    /\ \E i \in 1..2 : tree_data[i].value = 1 /\ tree_data[i].percentage = 33

AllMissingInSingleColumn ==
    /\ pc = "assembled"
    /\ agg_method = "Count"
    /\ Len(hierarchy) = 1
    /\ df.records # <<>>
    /\ \A j \in 1..Len(df.records) : isna(df.records[j][hierarchy[1]])

\* C12: when every row of a non-empty dataset is missing in the single
\* hierarchy column, the produced tree is one node labeled "No Data" that
\* holds all rows, with value the number of rows and percentage 100.
C12_AllMissingGivesOneNoDataNode ==
    AllMissingInSingleColumn =>
        /\ Len(tree_data) = 1
        /\ d3_tree_data = tree_data[1]
        /\ d3_tree_data.node_value = NoData
        /\ d3_tree_data.raw_data = df.records
        /\ d3_tree_data.value = Len(df.records)
        /\ d3_tree_data.percentage = 100

\* C13: in the tree build_tree returns, a node above the deepest level has a
\* non-empty children list of nodes one level down, grouped by the next
\* hierarchy column; a node at the deepest level has no children key; no
\* node has a level outside the hierarchy.
C13_ChildrenFollowTheHierarchy ==
    pc = "built" =>
        \A node \in NodesOf(tree_data) :
            /\ node.level < Len(hierarchy)
            /\ node.level + 1 < Len(hierarchy) =>
                   /\ HasChildren(node)
                   /\ node.children # <<>>
                   /\ \A k \in 1..Len(node.children) :
                          /\ node.children[k].level = node.level + 1
                          /\ node.children[k].column = hierarchy[node.level + 2]
            /\ node.level + 1 = Len(hierarchy) => ~HasChildren(node)

\* C14: the tree handed to the renderer is the single depth-0 node itself
\* when build_tree returned one node; when it returned two or more it is a
\* wrapper root whose children are those nodes in order, whose value is the
\* sum of their values and whose tooltip map is empty.
C14_RendererTreeWrapsDepth0Nodes ==
    pc = "assembled" =>
        /\ Len(tree_data) = 1 => d3_tree_data = tree_data[1]
        /\ Len(tree_data) >= 2 =>
               /\ d3_tree_data.children = tree_data
               /\ d3_tree_data.value = ValueSum(tree_data)
               /\ DOMAIN d3_tree_data.tooltip_data = {}

\* a wrapper root over two nodes whose values do not sum to the row count
C14_Witness ==
    /\ pc = "assembled"
    /\ Len(tree_data) = 2
    /\ d3_tree_data.name = "Root"
    /\ d3_tree_data.value # Len(df.records)

\* C15: with an empty hierarchy the script reports an error and stops before
\* build_tree is called; no tree, empty or placeholder, is built or handed
\* to the renderer.
C15_EmptyHierarchyStopsWithError ==
    hierarchy = <<>> =>
        /\ pc \in {"uploaded", "valued", "summarized", "stopped"}
        /\ pc = "stopped" => st_error # ""
        /\ tree_data = <<>>
        /\ constructed = 0
        /\ d3_tree_data = NoTree

C15_Witness ==
    /\ hierarchy = <<>>
    /\ pc = "stopped"
    /\ st_error = "No columns selected for hierarchy!"
    /\ df.records # <<>>

-----------------------------------------------------------------------------
(* A hierarchy column the dataset does not have                            *)

AbsentColumn == \E l \in 1..Len(hierarchy) : hierarchy[l] \notin df.columns

\* C16: when a hierarchy column, at any position, is absent from the
\* dataset, the build reports an error before any work: it does not complete,
\* no node is constructed and no KPI is computed.
C16_AbsentColumnFailsBeforeAnyWork ==
    (AbsentColumn /\ pc \notin {"uploaded", "valued", "summarized"}) =>
        /\ pc = "raised"
        /\ st_error # ""
        /\ constructed = 0
        /\ ~kpi.shown

-----------------------------------------------------------------------------
(* Member rows and tooltips                                                *)

\* every node of a sibling list and of the subtrees, with its path: the
\* grouping values from depth 0 down to the node
RECURSIVE PathsOf(_, _)
PathsOf(nodes, prefix) ==
    UNION {LET path == Append(prefix, nodes[i].node_value)
           IN  {[node |-> nodes[i], path |-> path]}
               \cup PathsOf(ChildrenOf(nodes[i]), path)
           : i \in 1..Len(nodes)}

\* the row has the values of the path in hierarchy[0..level]
MatchesPath(row, path) ==
    \A l \in 1..Len(path) :
        IF isna(row[hierarchy[l]]) THEN path[l] = NoData
        ELSE str(row[hierarchy[l]]) = path[l]

RowSet(node) == {node.raw_data[j] : j \in 1..Len(node.raw_data)}

SiblingsDisjoint(nodes) ==
    \A i, j \in 1..Len(nodes) :
        i # j => RowSet(nodes[i]) \cap RowSet(nodes[j]) = {}

\* C17: the member rows of every node are the dataset rows that match the
\* node's path; sibling nodes share no member row; the member rows of a
\* child are among those of its parent.
C17_MemberRowsMatchPath ==
    pc = "built" =>
        /\ \A e \in PathsOf(tree_data, <<>>) :
               e.node.raw_data =
                   SelectSeq(df.records, LAMBDA r : MatchesPath(r, e.path))
        /\ SiblingsDisjoint(tree_data)
        /\ \A node \in NodesOf(tree_data) :
               /\ SiblingsDisjoint(ChildrenOf(node))
               /\ \A k \in 1..Len(ChildrenOf(node)) :
                      RowSet(node.children[k]) \subseteq RowSet(node)

\* two depth-0 nodes, each with a child, the dataset having a third row
C17_Witness ==
    /\ pc = "built"
    /\ Len(tree_data) = 2
    /\ \A i \in 1..2 : HasChildren(tree_data[i])
    /\ Len(df.records) = 3

\* the parts of a str between its ", " separators, none for the empty str
RECURSIVE SplitComma(_, _)
SplitComma(text, part) ==
    IF text = <<>> THEN (IF part = <<>> THEN <<>> ELSE <<part>>)
    ELSE IF Len(text) >= 2 /\ text[1] = "," /\ text[2] = " "
    THEN <<part>> \o SplitComma(SubSeq(text, 3, Len(text)), <<>>)
    ELSE SplitComma(Tail(text), Append(part, Head(text)))

\* C18: for every node and every column of its tooltip data, the tooltip
\* string is the comma-joined list, sorted and without duplicates, of the
\* distinct stringified values of the column over the node's member rows,
\* the empty string and "nan" left out.
C18_TooltipIsSortedDistinctValues ==
    pc = "built" =>
        \A node \in NodesOf(tree_data) :
            \A c \in DOMAIN node.tooltip_data :
                LET parts == SplitComma(node.tooltip_data[c], <<>>)
                    values == {str(r[c]) : r \in RowSet(node)}
                IN  /\ {parts[i] : i \in 1..Len(parts)}
                           = values \ {<<>>, <<"n", "a", "n">>}
                    /\ \A i, j \in 1..Len(parts) :
                           i < j => StrLess(parts[i], parts[j])

\* a node with two statuses out of sheet order and a row without status
C18_Witness ==
    /\ pc = "built"
    /\ \E node \in NodesOf(tree_data) :
           /\ Len(node.raw_data) = 3
           /\ node.raw_data[1].Status = Str(Early)
           /\ node.raw_data[2].Status = NaN
           /\ node.raw_data[3].Status = Str(Delayed)
           /\ Text(node.tooltip_data.Status) = "Delayed, Early"
           /\ "Region" \in DOMAIN node.tooltip_data

-----------------------------------------------------------------------------
(* The Average rule and the row count of a node                            *)

\* C19: under Average the emitted value of every node is the sum of the
\* value column over its member rows, as under Sum, and the value presented
\* to the user is that sum divided by the node's number of rows.
C19_AverageShowsSumOverCount ==
    (pc = "assembled" /\ agg_method = "Average") =>
        \A node \in NodesOf(tree_data) :
            /\ 2 * node.value = ColumnSum(node.raw_data, "__value__")
            /\ 2 * node_label(node).value * Len(node.raw_data)
                   = ColumnSum(node.raw_data, "__value__")

\* C20: under Count, Sum and Average alike, the length of a node's row
\* payload is the number of dataset rows matching the node's path, whatever
\* the node's value.
C20_PayloadLengthIsRowCount ==
    pc = "built" =>
        \A e \in PathsOf(tree_data, <<>>) :
            Len(e.node.raw_data) =
                Cardinality({j \in 1..Len(df.records) :
                                MatchesPath(df.records[j], e.path)})

\* under Average, a node of two rows whose value is not its row count
C20_Witness ==
    /\ pc = "built"
    /\ agg_method = "Average"
    /\ \E node \in NodesOf(tree_data) :
           Len(node.raw_data) = 2 /\ node.value = 4

-----------------------------------------------------------------------------
(* Serialization                                                           *)

\* the JSON value a cell stands for: a string for a Timestamp, null for a
\* missing value, the string form for a value of an unknown type
JsonForm(cell) ==
    IF isna(cell) THEN None
    ELSE IF cell.t = "ts" THEN Str(isoformat(cell.s))
    ELSE IF cell.t = "obj" THEN Str(cell.s)
    ELSE cell

\* two trees with the same keys in every dict and the same length of every
\* list
RECURSIVE SameShape(_, _)
SameShape(a, b) ==
    /\ DOMAIN a = DOMAIN b
    /\ DOMAIN a.tooltip_data = DOMAIN b.tooltip_data
    /\ Len(a.raw_data) = Len(b.raw_data)
    /\ \A j \in 1..Len(a.raw_data) : DOMAIN a.raw_data[j] = DOMAIN b.raw_data[j]
    /\ Len(ChildrenOf(a)) = Len(ChildrenOf(b))
    /\ \A i \in 1..Len(ChildrenOf(a)) : SameShape(a.children[i], b.children[i])

\* C21: in the converted tree every value is a JSON value: each Timestamp
\* has become a string, each missing value null, each value of an unknown
\* type its string form; keys and list lengths are those of the tree before.
C21_ConvertedTreeIsJson ==
    (pc = "serialized" /\ st_error = "") =>
        /\ SameShape(tree_data_json, d3_tree_data)
        /\ \A node \in NodesOf(<<tree_data_json>>) :
               \A j \in 1..Len(node.raw_data) :
                   /\ \A c \in DOMAIN node.raw_data[j] :
                          node.raw_data[j][c].t \in {"str", "num", "none"}
                   /\ \E k \in 1..Len(df.records) :
                          node.raw_data[j] =
                              [c \in DOMAIN df.records[k] |->
                                  JsonForm(df.records[k][c])]

\* two trees with the same names, levels, values and numbers of children
RECURSIVE SameSkeleton(_, _)
SameSkeleton(a, b) ==
    /\ a.name = b.name
    /\ a.level = b.level
    /\ a.value = b.value
    /\ Len(ChildrenOf(a)) = Len(ChildrenOf(b))
    /\ \A i \in 1..Len(ChildrenOf(a)) : SameSkeleton(a.children[i], b.children[i])

\* C22: when serialization of the whole tree fails, a fallback tree is handed
\* to the renderer: producing it does not fail on the same value, it has the
\* structure, names, levels and values of the original tree, and no node of
\* it carries a row payload.
C22_FallbackKeepsStructureWithoutRows ==
    (pc \in {"serialized", "raised"} /\ st_error # "") =>
        /\ pc = "serialized"
        /\ SameSkeleton(tree_data_json, d3_tree_data)
        /\ \A node \in NodesOf(<<tree_data_json>>) : node.raw_data = <<>>

-----------------------------------------------------------------------------
(* The columns of the tooltip data                                         *)

Requested == {tooltip_cols[i] : i \in 1..Len(tooltip_cols)}

FixedTooltipColumns ==
    {"Status", "Delay_Days", "PIC", "Delay_Reason", "Planned_OnAir_Date",
     "Actual_OnAir_Date"}

DerivedStatusColumn ==
    IF time_comparison = Week THEN {"Week_Status"}
    ELSE IF time_comparison = Month THEN {"Month_Status"}
    ELSE {}

\* C24: the columns of every node's tooltip data are the requested columns
\* that exist in the dataset, the fixed columns that exist in the dataset and
\* the derived status column of the active granularity when it exists; each
\* once.
C24_TooltipColumnSet ==
    pc = "built" =>
        \A node \in NodesOf(tree_data) :
            DOMAIN node.tooltip_data =
                (Requested \cup FixedTooltipColumns \cup DerivedStatusColumn)
                    \cap df.columns

\* month granularity: Status requested and fixed, Planned_Week_Label
\* requested and absent, Delay_Days fixed only, Month_Status derived
C24_Witness ==
    /\ pc = "built"
    /\ time_comparison = Month
    /\ tooltip_cols = <<"Status", "Planned_Week_Label">>
    /\ \E node \in NodesOf(tree_data) :
           DOMAIN node.tooltip_data = {"Status", "Delay_Days", "Month_Status"}

-----------------------------------------------------------------------------
(* The dataset                                                             *)

\* C26: processing a dataset (the value rule, kpi_panel, build_tree) only
\* reads it: no step adds, removes or changes a field of a row, so the
\* dataset written by df.to_csv for download is the one that was loaded.
C26_ProcessingOnlyReadsTheDataset == [][df' = df]_vars

-----------------------------------------------------------------------------
(* Node names                                                              *)

DistinctNames(nodes) ==
    \A i, j \in 1..Len(nodes) : i # j => nodes[i].name # nodes[j].name

\* C27: in every sibling list of the tree the node names are pairwise
\* distinct, also when the grouping column holds values of different types
\* with the same string form.
C27_SiblingNamesDistinct ==
    pc = "built" =>
        /\ DistinctNames(tree_data)
        /\ \A node \in NodesOf(tree_data) : DistinctNames(ChildrenOf(node))

-----------------------------------------------------------------------------
(* Rounding of the percentage                                              *)

\* value / total * 100 is halfway between two integers
IsTie(value, total) ==
    /\ total > 0
    /\ (200 * value) % total = 0
    /\ ((200 * value) \div total) % 2 = 1

-----------------------------------------------------------------------------
(* The page                                                                *)

\* the names from the root down to the node at a path of data
RECURSIVE NamesTo(_)
NamesTo(p) ==
    IF p = <<>> THEN <<data.name>>
    ELSE Append(NamesTo(SubSeq(p, 1, Len(p) - 1)), NodeAt(data, p).name)

\* the nodes of a picture in the order they are drawn top to bottom, each by
\* the names from the root down to it
RECURSIVE PictureNodes(_, _)
PictureNodes(tree, above) ==
    LET here == Append(above, tree.name)
    IN  <<here>> \o Concat([k \in 1..Len(tree.children) |->
                                PictureNodes(tree.children[k], here)])

\* the paths reachable from p through expanded children, in sibling order
RECURSIVE ReachableFrom(_)
ReachableFrom(p) ==
    <<p>> \o (IF p \in DOMAIN root /\ root[p].expanded
              THEN Concat([k \in 1..Len(root[p].order) |->
                              ReachableFrom(Append(p, root[p].order[k]))])
              ELSE <<>>)

SeqToSet(seq) == {seq[i] : i \in 1..Len(seq)}

SiblingsSorted(r) ==
    \A p \in DOMAIN r :
        (Visible(r, p) /\ r[p].expanded) =>
            \A i, j \in 1..Len(r[p].order) :
                i < j => ~Before(NodeAt(data, Append(p, r[p].order[j])),
                                 NodeAt(data, Append(p, r[p].order[i])))

\* C25: with manual re-order off and a sort mode other than None, every
\* list of visible siblings follows the sort mode after every update; with
\* manual re-order on, the order of siblings changes only through a drag.
C25_SortedOrOnlyDragReorders ==
    [][/\ (pc' = "rendered" /\ ~manual_reorder_js /\ sort_mode_js # "none")
              => SiblingsSorted(root')
       /\ (pc = "rendered" /\ manual_reorder_js
              /\ \E p \in DOMAIN root : root'[p].order # root[p].order)
              => last_op' = "drag"]_vars

\* C29: after collapseAll every node of the tree is collapsed and only the
\* root is visible, and the click that follows reveals nothing deeper than
\* the direct children of the clicked node.
C29_CollapseAllCollapsesEveryNode ==
    [][/\ last_op' = "collapseAll" =>
              /\ \A p \in DOMAIN root' : ~root'[p].expanded
              /\ VisiblePaths(root') = {<<>>}
       /\ (last_op = "collapseAll" /\ last_op' = "click") =>
              \A p \in VisiblePaths(root') : Len(p) <= 1]_vars

\* how many times a row occurs in a list of rows
TimesIn(rows, row) == Cardinality({i \in 1..Len(rows) : rows[i] = row})

\* C30: the rows handed out for a node selected through the context menu
\* hold each member row of that node exactly once, whatever is expanded.
C30_NodeDataHoldsEachMemberRowOnce ==
    output.kind = "rows" =>
        /\ Len(output.rows) = Len(output.tree.raw_data)
        /\ \A i \in 1..Len(output.rows) :
               TimesIn(output.rows, output.rows[i])
                   = TimesIn(output.tree.raw_data, output.rows[i])

=============================================================================
